---- MODULE Spec2Model ----
(***************************************************************************)
(* The normalization engine of src/lib/transform.ts: transformRecord and   *)
(* its per-field normalizers, and the relation enricher                    *)
(* enrichRelatedItems in its copying and its in-place revision.            *)
(*                                                                         *)
(* JavaScript values are tagged records: [t |-> "null"], [t |->            *)
(* "undefined"], [t |-> "string", v |-> "..."], [t |-> "number", v |-> n], *)
(* [t |-> "boolean", v |-> b], [t |-> "array", v |-> <<...>>] and          *)
(* [t |-> "object", v |-> [key |-> value, ...]].  A key that is missing    *)
(* from an object reads as undefined, as in JavaScript.  A TypeError       *)
(* raised by a call is the value Throw.                                    *)
(***************************************************************************)
EXTENDS Integers, Sequences, FiniteSets, TLC

VARIABLES
    record,      \* the raw record handed to transformRecord
    item,        \* what transformRecord returned: an Item, Throw, or NotRun
    pc,          \* "raw" before the call, "done" after it, "fedback" after the
                 \* call on the record with its null fields fed back
    heap,        \* enricher: address -> cell (array, item or related entry)
    input,       \* enricher: address of the items array passed in
    result,      \* enricher: address of the array returned, 0 before the call
    heapBefore,  \* enricher: the heap as it was when the call started
    revision     \* enricher: which revision ran ("none", "copy", "inplace")

vars == <<record, item, pc, heap, input, result, heapBefore, revision>>

(***************************************************************************)
(* Bounds of the model.                                                    *)
(***************************************************************************)
MaxCreators == 2     \* longest creator / materials array
MaxRelated == 2      \* longest raw related array
MaxFlagKeys == 2     \* most keys present in a raw flags object
MaxItems == 2        \* most items in a collection handed to the enricher
MaxLinks == 2        \* most related entries in such a collection, in total

(***************************************************************************)
(* JavaScript values.                                                      *)
(***************************************************************************)
Null == [t |-> "null"]
Undef == [t |-> "undefined"]
Throw == [t |-> "throw"]
NotRun == [t |-> "notrun"]
Str(s) == [t |-> "string", v |-> s]
Num(n) == [t |-> "number", v |-> n]
Bool(b) == [t |-> "boolean", v |-> b]
Arr(s) == [t |-> "array", v |-> s]
Obj(r) == [t |-> "object", v |-> r]

\* x == null
IsNullish(x) == x.t \in {"null", "undefined"}

\* typeof x
TypeOf(x) ==
    CASE x.t \in {"null", "array", "object"} -> "object"
      [] OTHER -> x.t

\* Array.isArray(x)
IsArray(x) == x.t = "array"

\* the truthiness of x in a condition, x || y, x && y
Truthy(x) ==
    CASE x.t \in {"null", "undefined"} -> FALSE
      [] x.t = "string" -> x.v # ""
      [] x.t = "number" -> x.v # 0
      [] x.t = "boolean" -> x.v
      [] OTHER -> TRUE

\* o.k : a missing key, and any key of a primitive or an array, is undefined
Get(o, k) ==
    IF o.t = "object" /\ k \in DOMAIN o.v THEN o.v[k] ELSE Undef

\* Object.keys(x).length for an object or an array
KeyCount(x) ==
    CASE x.t = "object" -> Cardinality(DOMAIN x.v)
      [] x.t = "array" -> Len(x.v)
      [] OTHER -> 0

(***************************************************************************)
(* Strings: String.prototype.trim, toLowerCase, includes, and the decimal  *)
(* form of a number.                                                       *)
(***************************************************************************)
UpperLetters == "ABCDEFGHIJKLMNOPQRSTUVWXYZ"
LowerLetters == "abcdefghijklmnopqrstuvwxyz"
Digits == "0123456789"
WhiteSpace == {" ", "\t"}

CharAt(s, i) == SubSeq(s, i, i)

LowerChar(c) ==
    IF \E i \in 1..Len(UpperLetters) : CharAt(UpperLetters, i) = c
    THEN CharAt(LowerLetters, CHOOSE i \in 1..Len(UpperLetters) : CharAt(UpperLetters, i) = c)
    ELSE c

RECURSIVE ToLowerCase(_)
ToLowerCase(s) ==
    IF s = "" THEN ""
    ELSE LowerChar(CharAt(s, 1)) \o ToLowerCase(SubSeq(s, 2, Len(s)))

RECURSIVE TrimStart(_)
TrimStart(s) ==
    IF s # "" /\ CharAt(s, 1) \in WhiteSpace
    THEN TrimStart(SubSeq(s, 2, Len(s)))
    ELSE s

RECURSIVE TrimEnd(_)
TrimEnd(s) ==
    IF s # "" /\ CharAt(s, Len(s)) \in WhiteSpace
    THEN TrimEnd(SubSeq(s, 1, Len(s) - 1))
    ELSE s

Trim(s) == TrimEnd(TrimStart(s))

\* s.includes(c) for a one-character c
Includes(s, c) == \E i \in 1..Len(s) : CharAt(s, i) = c

RECURSIVE NatToString(_)
NatToString(n) ==
    IF n < 10 THEN CharAt(Digits, n + 1)
    ELSE NatToString(n \div 10) \o CharAt(Digits, (n % 10) + 1)

\* Number.prototype.toString for an integer
NumberToString(n) == IF n < 0 THEN "-" \o NatToString(0 - n) ELSE NatToString(n)

RECURSIVE JoinStrings(_, _)
JoinStrings(parts, sep) ==
    IF Len(parts) = 0 THEN ""
    ELSE IF Len(parts) = 1 THEN parts[1]
    ELSE parts[1] \o sep \o JoinStrings(Tail(parts), sep)

\* String(x), `${x}` ; Array.prototype.join renders null and undefined as ""
RECURSIVE ToStr(_)
ToStr(x) ==
    CASE x.t = "string" -> x.v
      [] x.t = "number" -> NumberToString(x.v)
      [] x.t = "boolean" -> (IF x.v THEN "true" ELSE "false")
      [] x.t = "null" -> "null"
      [] x.t = "undefined" -> "undefined"
      [] x.t = "array" ->
            JoinStrings([i \in 1..Len(x.v) |->
                            IF IsNullish(x.v[i]) THEN "" ELSE ToStr(x.v[i])], ",")
      [] OTHER -> "[object Object]"

\* arr.join(sep)
Join(arr, sep) ==
    JoinStrings([i \in 1..Len(arr) |->
                    IF IsNullish(arr[i]) THEN "" ELSE ToStr(arr[i])], sep)

\* the sequences over S of length at most n
SeqsUpTo(S, n) == UNION {[1..k -> S] : k \in 0..n}

(***************************************************************************)
(* The per-field normalizers of transform.ts, lines 120-473.               *)
(***************************************************************************)
Unknown == "unknown"

\* the emptiness test trims, the value returned is not trimmed
normalizeString_Untrimmed(value) ==
    IF IsNullish(value) THEN Null
    ELSE IF value.t # "string" THEN Throw
    ELSE IF Trim(value.v) = "" THEN Null
    ELSE value

\* value.trim() on a value that may not be a string: a TypeError otherwise
normalizeString(value) ==
    IF IsNullish(value) THEN Null
    ELSE IF value.t # "string" THEN Throw
    ELSE IF Trim(value.v) = "" THEN Null
    ELSE Str(Trim(value.v))

\* without the length test: an empty array comes back as it is
normalizeArray_EmptyKept(value) ==
    IF ~IsArray(value) THEN Null ELSE value

normalizeArray(value) ==
    IF ~IsArray(value) \/ Len(value.v) = 0 THEN Null ELSE value

\* the revision before the "Unknown" filter: every entry is joined
normalizeCreator_NoFilter(creator) ==
    IF IsNullish(creator) THEN Null
    ELSE IF IsArray(creator) THEN
        IF Len(creator.v) = 0 THEN Null ELSE Str(Join(creator.v, " and "))
    ELSE IF TypeOf(creator) = "string" /\ Trim(creator.v) # "" THEN
        LET normalized == Trim(creator.v)
        IN  IF ToLowerCase(normalized) = Unknown \/ normalized = "" THEN Null
            ELSE Str(normalized)
    ELSE Null

\* the string used as it is: "unknown" is recognised, the padding is kept
normalizeCreator_AsIs(creator) ==
    IF IsNullish(creator) THEN Null
    ELSE IF IsArray(creator) THEN
        IF Len(creator.v) = 0 THEN Null
        ELSE IF \E i \in 1..Len(creator.v) : creator.v[i].t # "string" THEN Throw
        ELSE LET keep(c) == ToLowerCase(c.v) # Unknown
                 filtered == SelectSeq(creator.v, keep)
             IN  IF Len(filtered) = 0 THEN Null
                 ELSE Str(Join(filtered, " and "))
    ELSE IF TypeOf(creator) = "string" /\ Trim(creator.v) # "" THEN
        IF ToLowerCase(Trim(creator.v)) = Unknown THEN Null ELSE creator
    ELSE Null

normalizeCreator(creator) ==
    IF IsNullish(creator) THEN Null
    ELSE IF IsArray(creator) THEN
        IF Len(creator.v) = 0 THEN Null
        \* c.toLowerCase() is a TypeError on null, a number, an object
        ELSE IF \E i \in 1..Len(creator.v) : creator.v[i].t # "string" THEN Throw
        ELSE LET keep(c) == ToLowerCase(c.v) # Unknown
                 filtered == SelectSeq(creator.v, keep)
             IN  IF Len(filtered) = 0 THEN Null
                 ELSE Str(Join(filtered, " and "))
    ELSE IF TypeOf(creator) = "string" /\ Trim(creator.v) # "" THEN
        LET normalized == Trim(creator.v)
        IN  IF ToLowerCase(normalized) = Unknown \/ normalized = "" THEN Null
            ELSE Str(normalized)
    ELSE Null

\* the revision before the "unknown" check: the display is returned as it is
normalizeDate_DisplayAsIs(date) ==
    IF IsNullish(date) THEN Null
    ELSE IF TypeOf(date) = "object" /\ Truthy(Get(date, "display")) THEN Get(date, "display")
    ELSE IF TypeOf(date) = "number" THEN Str(NumberToString(date.v))
    ELSE IF TypeOf(date) = "string" /\ Trim(date.v) # "" THEN Str(Trim(date.v))
    ELSE Null

normalizeDate(date) ==
    IF IsNullish(date) THEN Null
    ELSE IF TypeOf(date) = "object" /\ date.t = "object" /\ "display" \in DOMAIN date.v
            /\ Truthy(date.v["display"]) THEN
        LET display == ToLowerCase(Trim(ToStr(date.v["display"])))
        IN  IF display = Unknown THEN Null
            ELSE Str(Trim(ToStr(date.v["display"])))
    ELSE IF TypeOf(date) = "number" THEN Str(NumberToString(date.v))
    ELSE IF TypeOf(date) = "string" /\ Trim(date.v) # "" THEN
        LET normalized == ToLowerCase(Trim(date.v))
        IN  IF normalized = Unknown THEN Null ELSE Str(Trim(date.v))
    ELSE Null

\* the creator rule applied to materials: "unknown" entries and strings go
normalizeMaterials_UnknownFiltered(materials) ==
    IF IsNullish(materials) THEN Null
    ELSE IF IsArray(materials) THEN
        LET keep(c) == c.t # "string" \/ ToLowerCase(c.v) # Unknown
            filtered == SelectSeq(materials.v, keep)
        IN  IF Len(filtered) = 0 THEN Null ELSE Str(Join(filtered, ", "))
    ELSE IF TypeOf(materials) = "string" /\ Trim(materials.v) # "" THEN
        (IF ToLowerCase(Trim(materials.v)) = Unknown THEN Null
         ELSE Str(Trim(materials.v)))
    ELSE Null

normalizeMaterials(materials) ==
    IF IsNullish(materials) THEN Null
    ELSE IF IsArray(materials) THEN
        IF Len(materials.v) = 0 THEN Null ELSE Str(Join(materials.v, ", "))
    ELSE IF TypeOf(materials) = "string" /\ Trim(materials.v) # "" THEN
        Str(Trim(materials.v))
    ELSE Null

\* the earliest revision: no default unit, only the pair's own
extractValue_OwnUnitOnly(val, defaultUnit) ==
    IF IsNullish(val) THEN ""
    ELSE IF TypeOf(val) = "object" /\ ~IsNullish(Get(val, "value")) THEN
        LET unit == IF Truthy(Get(val, "unit")) THEN Get(val, "unit") ELSE Str("")
        IN  Trim(ToStr(Get(val, "value")) \o " " \o ToStr(unit))
    ELSE ToStr(val)

\* returns a string
extractValue(val, defaultUnit) ==
    IF IsNullish(val) THEN ""
    ELSE IF TypeOf(val) = "object" /\ ~IsNullish(Get(val, "value")) THEN
        LET unit == IF Truthy(Get(val, "unit")) THEN Get(val, "unit") ELSE defaultUnit
        IN  Trim(ToStr(Get(val, "value")) \o " " \o ToStr(unit))
    ELSE IF TypeOf(val) = "number" THEN
        IF Truthy(defaultUnit) THEN Trim(ToStr(val) \o " " \o ToStr(defaultUnit))
        ELSE ToStr(val)
    ELSE ToStr(val)

\* the separator of the rendered parts, ' × ' in the source; the
\* multiplication sign U+00D7 is written x here
PartSeparator == " x "

dimensionMap ==
    << [key |-> "h", label |-> "H", dimensionType |-> ""],
       [key |-> "w", label |-> "W", dimensionType |-> ""],
       [key |-> "d", label |-> "D", dimensionType |-> ""],
       [key |-> "l", label |-> "L", dimensionType |-> ""],
       [key |-> "diameter", label |-> "", dimensionType |-> "diameter"],
       [key |-> "wingspan", label |-> "", dimensionType |-> "wingspan"] >>

\* normalizeDimensions with one of its three tests changed:
\*   "rawdisplay"  the display is tested and returned untrimmed, in its own
\*                 letter case (the earliest revision)
\*   "truthy"      a sub-field is rendered when it is truthy (the earliest
\*                 revision), not when it is present
\*   "keepmarks"   a part holding "?" is kept
normalizeDimensions_Variant(dimensions, variant) ==
    IF ~Truthy(dimensions) \/ TypeOf(dimensions) # "object" \/ KeyCount(dimensions) = 0
    THEN Null
    ELSE
      LET disp == Get(dimensions, "display")
          useDisplay ==
              /\ Truthy(disp)
              /\ TypeOf(disp) = "string"
              /\ LET display == IF variant = "rawdisplay" THEN disp.v
                                ELSE ToLowerCase(Trim(disp.v))
                 IN  Trim(display) # "" /\ display # "?" /\ display # Unknown
      IN  IF useDisplay
          THEN (IF variant = "rawdisplay" THEN disp ELSE Str(Trim(disp.v)))
          ELSE
            LET defaultUnit == IF Truthy(Get(dimensions, "unit"))
                               THEN Get(dimensions, "unit") ELSE Str("")
                present(e) == IF variant = "truthy" THEN Truthy(Get(dimensions, e.key))
                              ELSE ~IsNullish(Get(dimensions, e.key))
                kept == SelectSeq(dimensionMap, present)
                rendered == [i \in 1..Len(kept) |->
                    LET value == extractValue(Get(dimensions, kept[i].key), defaultUnit)
                    IN  IF kept[i].dimensionType # ""
                        THEN value \o " " \o kept[i].dimensionType
                        ELSE kept[i].label \o " " \o value]
                real(part) == part # "" /\ (variant = "keepmarks" \/ ~Includes(part, "?"))
                parts == SelectSeq(rendered, real)
            IN  IF Len(parts) > 0 THEN Str(JoinStrings(parts, PartSeparator)) ELSE Null

normalizeDimensions_RawDisplay(dimensions) ==
    normalizeDimensions_Variant(dimensions, "rawdisplay")

normalizeDimensions_Truthy(dimensions) ==
    normalizeDimensions_Variant(dimensions, "truthy")

normalizeDimensions_KeepMarks(dimensions) ==
    normalizeDimensions_Variant(dimensions, "keepmarks")

normalizeDimensions(dimensions) ==
    IF ~Truthy(dimensions) \/ TypeOf(dimensions) # "object" \/ KeyCount(dimensions) = 0
    THEN Null
    ELSE
      LET disp == Get(dimensions, "display")
          useDisplay ==
              /\ Truthy(disp)
              /\ TypeOf(disp) = "string"
              /\ LET display == ToLowerCase(Trim(disp.v))
                 IN  display # "" /\ display # "?" /\ display # Unknown
      IN  IF useDisplay THEN Str(Trim(disp.v))
          ELSE
            LET defaultUnit == IF Truthy(Get(dimensions, "unit"))
                               THEN Get(dimensions, "unit") ELSE Str("")
                present(e) == ~IsNullish(Get(dimensions, e.key))
                kept == SelectSeq(dimensionMap, present)
                rendered == [i \in 1..Len(kept) |->
                    LET value == extractValue(Get(dimensions, kept[i].key), defaultUnit)
                    IN  IF kept[i].dimensionType # ""
                        THEN value \o " " \o kept[i].dimensionType
                        ELSE kept[i].label \o " " \o value]
                real(part) == part # "" /\ ~Includes(part, "?")
                parts == SelectSeq(rendered, real)
            IN  IF Len(parts) > 0 THEN Str(JoinStrings(parts, PartSeparator)) ELSE Null

\* raw flag key -> canonical flag key, in the order of lines 292-298
flagMap ==
    << <<"possible_duplicate", "possibleDuplicate">>,
       <<"prototype", "prototype">>,
       <<"needs_research", "needsResearch">>,
       <<"needs_review", "needsReview">>,
       <<"attribution_uncertain", "attributionUncertain">>,
       <<"materials_incomplete", "materialsIncomplete">>,
       <<"missing_dimensions", "missingDimensions">> >>

\* if (flags.x) in place of if (flags.x === true)
normalizeFlags_Truthy(flags) ==
    IF ~Truthy(flags) \/ TypeOf(flags) # "object" THEN Null
    ELSE LET set == {flagMap[i][2] : i \in {j \in 1..Len(flagMap) :
                                              Truthy(Get(flags, flagMap[j][1]))}}
             normalized == [k \in set |-> Bool(TRUE)]
         IN  IF Cardinality(set) > 0 THEN Obj(normalized) ELSE Null

normalizeFlags(flags) ==
    IF ~Truthy(flags) \/ TypeOf(flags) # "object" THEN Null
    ELSE LET set == {flagMap[i][2] : i \in {j \in 1..Len(flagMap) :
                                              Get(flags, flagMap[j][1]) = Bool(TRUE)}}
             normalized == [k \in set |-> Bool(TRUE)]
         IN  IF Cardinality(set) > 0 THEN Obj(normalized) ELSE Null

\* the filter tests the type alone
normalizeRelated_TypeOnly(related) ==
    IF ~IsArray(related) \/ Len(related.v) = 0 THEN Arr(<<>>)
    ELSE LET ok(e) == Truthy(e) /\ Truthy(Get(e, "type"))
             kept == SelectSeq(related.v, ok)
         IN  Arr([i \in 1..Len(kept) |->
                    Obj([type |-> Get(kept[i], "type"),
                         objectId |-> Get(kept[i], "object_id")])])

normalizeRelated(related) ==
    IF ~IsArray(related) \/ Len(related.v) = 0 THEN Arr(<<>>)
    ELSE LET ok(e) == Truthy(e) /\ Truthy(Get(e, "type")) /\ Truthy(Get(e, "object_id"))
             kept == SelectSeq(related.v, ok)
         IN  Arr([i \in 1..Len(kept) |->
                    Obj([type |-> Get(kept[i], "type"),
                         objectId |-> Get(kept[i], "object_id")])])

\* Object.keys of an array are its indices "0", "1", ...
OwnKeys(x) ==
    CASE x.t = "object" -> DOMAIN x.v
      [] x.t = "array" -> {NumberToString(i - 1) : i \in 1..Len(x.v)}
      [] OTHER -> {}

\* x[key] for a key of OwnKeys(x)
OwnValue(x, key) ==
    IF x.t = "array"
    THEN x.v[CHOOSE i \in 1..Len(x.v) : NumberToString(i - 1) = key]
    ELSE x.v[key]

\* only null and undefined are dropped: the empty string stays
normalizeExternalIds_KeepEmpty(value) ==
    IF ~Truthy(value) \/ TypeOf(value) # "object" THEN Null
    ELSE LET keep == {k \in OwnKeys(value) : ~IsNullish(OwnValue(value, k))}
             filtered == [k \in keep |-> Str(ToStr(OwnValue(value, k)))]
         IN  IF Cardinality(keep) > 0 THEN Obj(filtered) ELSE Null

normalizeExternalIds(value) ==
    IF ~Truthy(value) \/ TypeOf(value) # "object" THEN Null
    ELSE LET keep == {k \in OwnKeys(value) :
                        ~IsNullish(OwnValue(value, k)) /\ OwnValue(value, k) # Str("")}
             filtered == [k \in keep |-> Str(ToStr(OwnValue(value, k)))]
         IN  IF Cardinality(keep) > 0 THEN Obj(filtered) ELSE Null

\* the object shape is not read: only a string gives a value
normalizeRights_StringsOnly(value) ==
    IF ~Truthy(value) THEN Null
    ELSE IF TypeOf(value) = "string" THEN
        (IF Trim(value.v) # "" THEN Str(Trim(value.v)) ELSE Null)
    ELSE Null

normalizeRights(value) ==
    IF ~Truthy(value) THEN Null
    ELSE IF TypeOf(value) = "string" THEN
        (IF Trim(value.v) # "" THEN Str(Trim(value.v)) ELSE Null)
    ELSE IF TypeOf(value) = "object" /\ Truthy(Get(value, "status")) THEN
        Get(value, "status")
    ELSE Null

\* the shared shape of normalizeGeo, normalizeSeries and normalizeLocation:
\* keep the named sub-fields that are truthy
\* without the !value guard: typeof null is "object", and reading a
\* sub-field of null is a TypeError
KeepTruthy_NoNullGuard(value, names) ==
    IF TypeOf(value) # "object" THEN Null
    ELSE IF IsNullish(value) THEN Throw
    ELSE LET keep == {k \in names : Truthy(Get(value, k))}
         IN  IF Cardinality(keep) > 0 THEN Obj([k \in keep |-> Get(value, k)]) ELSE Null

\* a named sub-field is kept when it is there, empty or not
KeepTruthy_Present(value, names) ==
    IF ~Truthy(value) \/ TypeOf(value) # "object" THEN Null
    ELSE LET keep == {k \in names : ~IsNullish(Get(value, k))}
         IN  IF Cardinality(keep) > 0 THEN Obj([k \in keep |-> Get(value, k)]) ELSE Null

KeepTruthy(value, names) ==
    IF ~Truthy(value) \/ TypeOf(value) # "object" THEN Null
    ELSE LET keep == {k \in names : Truthy(Get(value, k))}
         IN  IF Cardinality(keep) > 0 THEN Obj([k \in keep |-> Get(value, k)]) ELSE Null

normalizeGeo(value) == KeepTruthy(value, {"country", "region"})

normalizeSeries(value) == KeepTruthy(value, {"title", "type"})

normalizeLocation(value) == KeepTruthy(value, {"site", "shelf"})

normalizeEdition(value) ==
    IF ~Truthy(value) \/ TypeOf(value) # "object" THEN Null
    ELSE LET keep == {k \in {"number"} : ~IsNullish(Get(value, k))}
                     \cup {k \in {"notes"} : Truthy(Get(value, k))}
         IN  IF Cardinality(keep) > 0 THEN Obj([k \in keep |-> Get(value, k)]) ELSE Null

(***************************************************************************)
(* transformRecord, lines 35-69.  The object literal evaluates every field *)
(* initializer; a TypeError in any of them leaves the call without a       *)
(* result.                                                                 *)
(***************************************************************************)
UnknownTitle == "Unknown Title"

\* record.title ?? 'Unknown Title': only null and undefined fall back
titleOf_NullishOnly(title) == IF IsNullish(title) THEN Str(UnknownTitle) ELSE title

\* record.title || 'Unknown Title', line 40
titleOf(title) == IF Truthy(title) THEN title ELSE Str(UnknownTitle)

ItemOf(r) ==
    [ id |-> r.object_id,
      accessionNumber |-> normalizeString(r.accession_number),
      title |-> titleOf(r.title),
      creator |-> normalizeCreator(r.creator),
      date |-> normalizeDate(r.date),
      objectType |-> r.object_type,
      department |-> r.department,
      materials |-> normalizeMaterials(r.materials),
      dimensions |-> normalizeDimensions(r.dimensions),
      flags |-> normalizeFlags(r.flags),
      related |-> normalizeRelated(r.related),
      notes |-> normalizeArray(r.notes),
      externalIds |-> normalizeExternalIds(r.external_ids),
      keywords |-> normalizeArray(r.keywords),
      description |-> normalizeString(r.description),
      rights |-> normalizeRights(r.rights),
      variants |-> normalizeArray(r.variants),
      tags |-> normalizeArray(r.tags),
      creditLine |-> normalizeString(r.credit_line),
      condition |-> normalizeString(r.condition),
      geo |-> normalizeGeo(r.geo),
      inventoryLocation |-> IF IsNullish(r.inventory_location) THEN Null
                            ELSE r.inventory_location,
      transcription |-> normalizeString(r.transcription),
      series |-> normalizeSeries(r.series),
      location |-> normalizeLocation(r.location),
      edition |-> normalizeEdition(r.edition),
      status |-> normalizeString(r.status),
      provenance |-> normalizeArray(r.provenance) ]

transformRecord(r) ==
    LET it == ItemOf(r)
    IN  IF \E f \in DOMAIN it : it[f] = Throw THEN Throw ELSE Obj(it)

(***************************************************************************)
(* The raw shapes of scripts/quicktype-generated.ts (Record, lines 11-40,  *)
(* and the interfaces it names), each widened with the shapes the export   *)
(* is not documented to produce.                                           *)
(***************************************************************************)
\* the partial objects over the keys K with values in V, at most n keys present
PartialObjects(K, V, n) ==
    {Obj(f) : f \in UNION {[S -> V] : S \in {T \in SUBSET K : Cardinality(T) <= n}}}

TitleValues ==
    {Null, Undef, Str(""), Str("Chair"), Str(" Lounge Chair "), Str("  ")}

PlainStringValues ==
    {Null, Undef, Str(""), Str("  "), Str("Good"), Str("  Good \t")}

UnexpectedStringValues ==
    {Num(5), Bool(TRUE), Obj([text |-> Str("Good")]), Arr(<<Str("Good")>>)}

CreatorElements ==
    {Str("Charles Eames"), Str("Ray Eames"), Str("Unknown"), Str("UNKNOWN"),
     Str(" unknown "), Str("")}

CreatorStrings ==
    {Str(""), Str("  "), Str("Unknown"), Str("unknown"), Str(" UNKNOWN "),
     Str("Charles and Ray Eames"), Str("  Ray Eames  "), Str("Unknown maker")}

CreatorArrays == {Arr(s) : s \in SeqsUpTo(CreatorElements, MaxCreators)}

UnexpectedCreators ==
    {Arr(<<Null>>), Arr(<<Num(7)>>), Arr(<<Str("Ray Eames"), Null>>),
     Num(7), Bool(TRUE), Obj([name |-> Str("Ray Eames")])}

CreatorValues == {Null, Undef} \cup CreatorStrings \cup CreatorArrays

DateDisplays ==
    {Str(""), Str("  "), Str("1945-1946"), Str(" c. 1950 "), Str("unknown"),
     Str(" Unknown ")}

DateObjects ==
    {Obj([display |-> d, earliest |-> b[1], latest |-> b[2]]) :
        d \in DateDisplays, b \in {<<Num(1945), Num(1946)>>, <<Null, Null>>}}

DateStrings ==
    {Str("1954"), Str(" c. 1938 "), Str("unknown"), Str("UNKNOWN"), Str(" Unknown "),
     Str(""), Str("  ")}

DateNumbers == {Num(0), Num(1900), Num(-50)}

UnexpectedDates ==
    {Obj([earliest |-> Num(1945), latest |-> Num(1946)]),
     Obj([display |-> Null, earliest |-> Null, latest |-> Null]),
     Obj([display |-> Num(1945)]),
     Bool(TRUE), Bool(FALSE), Arr(<<>>), Arr(<<Str("1954")>>)}

DateValues == {Null, Undef} \cup DateObjects \cup DateStrings \cup DateNumbers

MaterialElements ==
    {Str("molded plywood"), Str("rubber shock mounts"), Str("unknown"), Str("")}

MaterialStrings ==
    {Str(""), Str(" "), Str("wire mesh, metal frame"), Str(" steel "), Str("unknown")}

MaterialValues ==
    {Null, Undef} \cup MaterialStrings
        \cup {Arr(s) : s \in SeqsUpTo(MaterialElements, MaxCreators)}

UnexpectedMaterials ==
    {Num(3), Obj([main |-> Str("steel")]), Arr(<<Null>>), Arr(<<Num(1), Str("steel")>>)}

DimensionKeys == {"h", "w", "d", "l", "diameter", "wingspan"}

DimensionSubValues ==
    {Num(26), Num(0), Str("24 in"), Str("10"), Str("?"),
     Obj([value |-> Num(26), unit |-> Str("in")]), Obj([value |-> Num(21)])}

DimensionDisplays == {Str("26 x 21 in"), Str("?"), Str(" Unknown "), Str(" 12 in \t")}

DimensionUnits == {Str("cm"), Str("?")}

\* a display or not, a default unit or not, and at most two of the six sub-fields
DimensionObjects ==
    {Obj([k \in DOMAIN a.v \cup DOMAIN b.v \cup DOMAIN c.v |->
            IF k \in DOMAIN a.v THEN a.v[k]
            ELSE IF k \in DOMAIN b.v THEN b.v[k] ELSE c.v[k]]) :
        a \in PartialObjects({"display"}, DimensionDisplays, 1),
        b \in PartialObjects({"unit"}, DimensionUnits, 1),
        c \in PartialObjects(DimensionKeys, DimensionSubValues, 1)
              \cup PartialObjects({"h", "w"}, DimensionSubValues, 2)
              \cup PartialObjects({"l", "diameter"}, {Num(26), Null}, 2)}

DimensionValues == {Null, Undef} \cup DimensionObjects

UnexpectedDimensions ==
    {Str("26 in"), Num(26), Bool(TRUE), Arr(<<>>), Arr(<<Num(26), Num(21)>>),
     Obj([display |-> Num(12), h |-> Num(26)]),
     Obj([display |-> Str(""), w |-> Str("24 in")]),
     Obj([h |-> Str("")]), Obj([h |-> Obj([unit |-> Str("in")]), w |-> Bool(TRUE)])}

RawFlagKeys ==
    {"possible_duplicate", "prototype", "needs_research", "needs_review",
     "attribution_uncertain", "materials_incomplete", "missing_dimensions"}

UnknownFlagKey == "fragile"

RawFlagValues == {Bool(TRUE), Bool(FALSE), Num(1), Str("true"), Null}

\* every key alone, some keys together, and all of them
FlagObjects ==
    PartialObjects(RawFlagKeys \cup {UnknownFlagKey}, RawFlagValues, 1)
        \cup PartialObjects({"possible_duplicate", "prototype", "needs_review",
                             UnknownFlagKey}, RawFlagValues, MaxFlagKeys)
        \cup {Obj([k \in RawFlagKeys |-> Bool(TRUE)]),
              Obj([k \in RawFlagKeys |-> Bool(FALSE)])}

FlagValues == {Null, Undef} \cup FlagObjects

UnexpectedFlags == {Arr(<<Bool(TRUE)>>), Str("prototype"), Bool(TRUE), Num(1)}

RelatedEntries ==
    {Obj([type |-> Str("paired-with"), object_id |-> Str("A")]),
     Obj([type |-> Str("set-member"), object_id |-> Str("B")]),
     Obj([type |-> Str("paired-with"), object_id |-> Str("B"), slug |-> Str("la-chaise")]),
     Obj([type |-> Str("paired-with"), slug |-> Str("la-chaise")]),
     Obj([type |-> Str("paired-with"), object_id |-> Null]),
     Obj([type |-> Str("paired-with"), object_id |-> Str("")]),
     Obj([type |-> Str(""), object_id |-> Str("A")]),
     Obj([object_id |-> Str("A")]),
     Obj(<<>>)}

UnexpectedRelatedEntries == {Null, Str("A")}

RelatedValues ==
    {Null, Undef}
        \cup {Arr(s) : s \in SeqsUpTo(RelatedEntries \cup UnexpectedRelatedEntries,
                                      MaxRelated)}

UnexpectedRelated ==
    {Obj([type |-> Str("paired-with"), object_id |-> Str("A")]), Str("A")}

ExternalIdValues ==
    {Null, Undef}
        \cup PartialObjects({"emuseum", "imdb", "internal_slug"},
                            {Null, Str(""), Str("E-100"), Num(42)}, 2)

UnexpectedExternalIds == {Arr(<<>>), Arr(<<Str("E-100")>>), Str("E-100"), Num(42)}

RightsValues ==
    {Null, Undef, Str(""), Str(" "), Str("CC BY"), Str(" Eames Office ")}
        \cup PartialObjects({"status", "notes"},
                            {Str("In copyright"), Str("  "), Str(""), Str(" Public domain ")}, 2)

UnexpectedRights ==
    {Num(7), Num(0), Bool(TRUE), Arr(<<Str("CC BY")>>), Obj([status |-> Num(1)]),
     Obj([status |-> Null, notes |-> Str("x")])}

SubFieldValues == {Null, Str(""), Str("USA"), Str("CA")}

GeoValues == {Null, Undef} \cup PartialObjects({"country", "region", "city"}, SubFieldValues, 2)

SeriesValues == {Null, Undef} \cup PartialObjects({"title", "type"}, SubFieldValues, 2)

LocationValues == {Null, Undef} \cup PartialObjects({"site", "shelf"}, SubFieldValues, 2)

EditionValues ==
    {Null, Undef}
        \cup {Obj(f) : f \in UNION {[S -> {Null, Num(0), Num(3), Str(""), Str("AP")}] :
                                        S \in SUBSET {"number", "notes"}}}

UnexpectedSmallObjects == {Arr(<<Str("USA")>>), Arr(<<>>), Str("USA"), Num(1), Bool(TRUE)}

ListValues ==
    {Null, Undef, Arr(<<>>), Arr(<<Str("a")>>), Arr(<<Str("b"), Str("a")>>),
     Arr(<<Obj([color |-> Str("red"), notes |-> Null])>>),
     Arr(<<Null, Str("")>>)}

UnexpectedLists == {Str("a"), Obj([first |-> Str("a")]), Num(2)}

InventoryLocationValues == {Undef, Null, Num(12), Num(0), Str("B-4")}

\* a record of the export with every field populated in a documented shape
TypicalRecord ==
    [ object_id |-> Str("A"),
      accession_number |-> Str("1999.12.1"),
      title |-> Str("Chair"),
      creator |-> Arr(<<Str("Charles Eames"), Str("Ray Eames")>>),
      date |-> Obj([display |-> Str("1945-1946"), earliest |-> Num(1945),
                    latest |-> Num(1946)]),
      object_type |-> Str("furniture"),
      department |-> Str("Design"),
      materials |-> Arr(<<Str("molded plywood"), Str("rubber shock mounts")>>),
      dimensions |-> Obj([h |-> Obj([value |-> Num(26), unit |-> Str("in")]),
                          w |-> Obj([value |-> Num(21), unit |-> Str("in")])]),
      flags |-> Obj([possible_duplicate |-> Bool(TRUE), prototype |-> Bool(FALSE)]),
      related |-> Arr(<<Obj([type |-> Str("paired-with"), object_id |-> Str("B")])>>),
      notes |-> Arr(<<Str("a")>>),
      external_ids |-> Obj([emuseum |-> Str("E-100"), imdb |-> Null]),
      keywords |-> Arr(<<Str("b"), Str("a")>>),
      description |-> Str("Good"),
      rights |-> Obj([status |-> Str("In copyright"), notes |-> Str("")]),
      variants |-> Arr(<<Obj([color |-> Str("red"), notes |-> Null])>>),
      tags |-> Arr(<<Str("a")>>),
      credit_line |-> Str("Good"),
      condition |-> Str("Good"),
      geo |-> Obj([country |-> Str("USA"), region |-> Null]),
      inventory_location |-> Num(12),
      transcription |-> Null,
      series |-> Obj([title |-> Str("USA"), type |-> Str("CA")]),
      location |-> Obj([site |-> Str("USA"), shelf |-> Str("CA")]),
      edition |-> Obj([number |-> Null, notes |-> Str("AP")]),
      status |-> Str("Good"),
      provenance |-> Arr(<<Str("a")>>) ]

\* a record with only the fields the export always carries
MinimalRecord ==
    [f \in DOMAIN TypicalRecord |->
        IF f \in {"object_id", "object_type", "department"} THEN TypicalRecord[f]
        ELSE IF f \in {"accession_number", "title", "creator", "date", "materials",
                       "dimensions"} THEN Null
        ELSE Undef]

PlainStringFields ==
    {"accession_number", "description", "condition", "credit_line", "transcription",
     "status"}

ListFields == {"notes", "keywords", "variants", "tags", "provenance"}

\* the documented shapes of a raw field
DocumentedValues(f) ==
    CASE f = "object_id" -> {Str("A"), Str("B")}
      [] f \in {"object_type", "department"} -> {TypicalRecord[f]}
      [] f = "title" -> TitleValues
      [] f \in PlainStringFields -> PlainStringValues
      [] f = "creator" -> CreatorValues
      [] f = "date" -> DateValues
      [] f = "materials" -> MaterialValues
      [] f = "dimensions" -> DimensionValues
      [] f = "flags" -> FlagValues
      [] f = "related" -> RelatedValues
      [] f = "external_ids" -> ExternalIdValues
      [] f = "rights" -> RightsValues
      [] f = "geo" -> GeoValues
      [] f = "series" -> SeriesValues
      [] f = "location" -> LocationValues
      [] f = "edition" -> EditionValues
      [] f \in ListFields -> ListValues
      [] f = "inventory_location" -> InventoryLocationValues

\* JSON values of a shape the export is not documented to produce
UnexpectedValues(f) ==
    CASE f \in PlainStringFields -> UnexpectedStringValues
      [] f = "creator" -> UnexpectedCreators
      [] f = "date" -> UnexpectedDates
      [] f = "materials" -> UnexpectedMaterials
      [] f = "dimensions" -> UnexpectedDimensions
      [] f = "flags" -> UnexpectedFlags
      [] f = "related" -> UnexpectedRelated
      [] f = "external_ids" -> UnexpectedExternalIds
      [] f = "rights" -> UnexpectedRights
      [] f \in {"geo", "series", "location", "edition"} -> UnexpectedSmallObjects
      [] f \in ListFields -> UnexpectedLists
      [] OTHER -> {}

FieldValues(f) == DocumentedValues(f) \cup UnexpectedValues(f)

\* The field rules are independent (each normalizer reads its own field only,
\* lines 36-68), so a raw record is a base record with one field replaced.
RawRecords ==
    UNION {{[b EXCEPT ![f] = x] : x \in FieldValues(f)} :
              b \in {TypicalRecord, MinimalRecord}, f \in DOMAIN TypicalRecord}

\* whether every field of r has a documented shape
Documented(r) == \A f \in DOMAIN r : r[f] \in DocumentedValues(f)

(***************************************************************************)
(* The normalizer as a state machine: a raw record is loaded, and          *)
(* transformRecord is called on it.                                        *)
(***************************************************************************)
EnricherIdle ==
    /\ heap = <<>>
    /\ input = 0
    /\ result = 0
    /\ heapBefore = <<>>
    /\ revision = "none"

Init ==
    /\ record \in RawRecords
    /\ item = NotRun
    /\ pc = "raw"
    /\ EnricherIdle

TransformRecord ==
    /\ pc = "raw"
    /\ item' = transformRecord(record)
    /\ pc' = "done"
    /\ UNCHANGED <<record, heap, input, result, heapBefore, revision>>

Next == TransformRecord

Spec == Init /\ [][Next]_vars

(***************************************************************************)
(* The relation enricher, enrichRelatedItems: the copying revision of      *)
(* lines 88-103 and the in-place revision of lines 894-909.  Arrays and    *)
(* objects live in a heap of cells, so that a write through one reference  *)
(* is seen through every other and a new object is a new address.         *)
(*   array cell  [k |-> "array", elems |-> <<address, ...>>]               *)
(*   item cell   [k |-> "item", id, title, objectType, related |-> address,*)
(*                notes |-> address of the list the item passes through,   *)
(*                          0 for null]                                    *)
(*   entry cell  [k |-> "rel", type, objectId, title]                      *)
(***************************************************************************)
ItemIds == {Str("A"), Str("B")}

\* an Item's title is never empty (line 40); the item at position i of the
\* collections of the model has the i-th of these titles
ItemTitles == <<Str("Chair"), Str("Unknown Title"), Str("Table"), Str("Lamp")>>

\* a related entry of the input: its target may be no item of the collection,
\* and it may carry a title from an earlier enrichment
LinkShapes ==
    [type : {Str("paired-with")}, objectId : ItemIds \cup {Str("Z")}, title : {Undef}]
        \cup [type : {Str("paired-with")}, objectId : {Str("A"), Str("Z")},
              title : {Str("Old title")}]

RECURSIVE SumOfLens(_)
SumOfLens(lists) ==
    IF lists = <<>> THEN 0 ELSE Len(Head(lists)) + SumOfLens(Tail(lists))

\* the related entries of a collection of n items, item after item, each
\* with the position of the item that owns it
OwnedLinks(n) ==
    {l \in SeqsUpTo([owner : 1..n, shape : LinkShapes], MaxLinks) :
        \A i \in 1..(Len(l) - 1) : l[i].owner <= l[i + 1].owner}

LinksOf(l, i) ==
    LET mine(e) == e.owner = i
        own == SelectSeq(l, mine)
    IN  [j \in 1..Len(own) |-> own[j].shape]

\* per item, its id and its related entries
Collections ==
    UNION {{[i \in 1..n |-> [id |-> ids[i], links |-> LinksOf(l, i)]] :
               ids \in [1..n -> ItemIds], l \in OwnedLinks(n)} : n \in 0..MaxItems}

\* the entries of the items before item i
LinksBefore(c, i) == SumOfLens([j \in 1..(i - 1) |-> c[j].links])

\* The heap holding the collection c from address base + 1 on: the items
\* array, then the items, then their related arrays, then the entries.
\* titles[i][j] is the title slot of entry j of item i.
Layout(c, base, titles) ==
    LET n == Len(c)
        total == LinksBefore(c, n + 1)
    IN  [a \in (base + 1)..(base + 1 + 2 * n + total) |->
            LET o == a - base
            IN  IF o = 1 THEN [k |-> "array", elems |-> [i \in 1..n |-> base + 1 + i]]
                ELSE IF o <= 1 + n THEN
                    [k |-> "item", id |-> c[o - 1].id, title |-> c[o - 1].title,
                     objectType |-> Str("furniture"), related |-> base + n + o,
                     notes |-> c[o - 1].notes]
                ELSE IF o <= 1 + 2 * n THEN
                    LET i == o - 1 - n
                    IN  [k |-> "array",
                         elems |-> [j \in 1..Len(c[i].links) |->
                                       base + 1 + 2 * n + LinksBefore(c, i) + j]]
                ELSE
                    LET i == CHOOSE i \in 1..n :
                                 /\ LinksBefore(c, i) < o - 1 - 2 * n
                                 /\ o - 1 - 2 * n <= LinksBefore(c, i + 1)
                        j == o - 1 - 2 * n - LinksBefore(c, i)
                    IN  [k |-> "rel", type |-> c[i].links[j].type,
                         objectId |-> c[i].links[j].objectId,
                         title |-> titles[i][j]]]

\* the collection held by the array at address arr of heap h, read back
\* as values: per item its fields and its related entries
ItemsAt(h, arr) ==
    [i \in 1..Len(h[arr].elems) |->
        LET it == h[h[arr].elems[i]]
        IN  [id |-> it.id, title |-> it.title, objectType |-> it.objectType,
             notes |-> it.notes,
             links |-> [j \in 1..Len(h[it.related].elems) |->
                           LET rel == h[h[it.related].elems[j]]
                           IN  [type |-> rel.type, objectId |-> rel.objectId,
                                title |-> rel.title]]]]

\* every address reachable from the array at arr: the array, its items,
\* their related arrays and the entries
CellsOf(h, arr) ==
    {arr} \cup {h[arr].elems[i] : i \in 1..Len(h[arr].elems)}
          \cup {h[h[arr].elems[i]].related : i \in 1..Len(h[arr].elems)}
          \cup UNION {{h[h[h[arr].elems[i]].related].elems[j] :
                          j \in 1..Len(h[h[h[arr].elems[i]].related].elems)} :
                      i \in 1..Len(h[arr].elems)}

\* if (!titleMap.has(item.id)) titleMap.set(item.id, item.title): the first
\* item with an id keeps it
titleMapOf_FirstWins(items) ==
    [key \in {items[i].id : i \in 1..Len(items)} |->
        items[CHOOSE i \in 1..Len(items) :
                 items[i].id = key /\ \A j \in 1..(i - 1) : items[j].id # key].title]

\* the index as it is before the last item is reached
titleMapOf_WithoutLast(items) ==
    LET seen == SubSeq(items, 1, Len(items) - 1)
    IN  [key \in {seen[i].id : i \in 1..Len(seen)} |->
            seen[CHOOSE i \in 1..Len(seen) :
                    seen[i].id = key /\ \A j \in (i + 1)..Len(seen) : seen[j].id # key].title]

\* titleMap after items.forEach(item => titleMap.set(item.id, item.title)):
\* a later item with the same id overwrites the earlier one
RECURSIVE titleMapOf(_)
titleMapOf(items) ==
    IF items = <<>> THEN <<>>
    ELSE LET m == titleMapOf(SubSeq(items, 1, Len(items) - 1))
             last == items[Len(items)]
         IN  [key \in DOMAIN m \cup {last.id} |->
                 IF key = last.id THEN last.title ELSE m[key]]

\* titleMap.get(key)
mapGet(m, key) == IF key \in DOMAIN m THEN m[key] ELSE Undef

\* titleMap.get(rel.objectId), without the fallback to the id
resolveTitle_NoFallback(titleMap, objectId) == mapGet(titleMap, objectId)

\* titleMap.get(rel.objectId) || rel.objectId
resolveTitle(titleMap, objectId) ==
    IF Truthy(mapGet(titleMap, objectId)) THEN mapGet(titleMap, objectId) ELSE objectId

InitEnrich ==
    /\ record = MinimalRecord
    /\ item = NotRun
    /\ pc = "items"
    /\ \E c \in Collections :
          heap = Layout([i \in 1..Len(c) |-> [id |-> c[i].id, title |-> ItemTitles[i],
                                              notes |-> 0, links |-> c[i].links]],
                        0, [i \in 1..Len(c) |->
                               [j \in 1..Len(c[i].links) |-> c[i].links[j].title]])
    /\ input = 1
    /\ result = 0
    /\ heapBefore = <<>>
    /\ revision = "none"

\* the copying revision with a filter before the map: an entry whose target
\* is no item of the collection is left out
EnrichCopy_ResolvedOnly ==
    /\ pc = "items"
    /\ LET items == ItemsAt(heap, input)
           titleMap == titleMapOf(items)
           found(l) == l.objectId \in DOMAIN titleMap
           kept == [i \in 1..Len(items) |->
                       [items[i] EXCEPT !.links = SelectSeq(items[i].links, found)]]
           base == Len(heap)
           fresh == Layout(kept, base,
                           [i \in 1..Len(kept) |->
                               [j \in 1..Len(kept[i].links) |->
                                   resolveTitle(titleMap, kept[i].links[j].objectId)]])
       IN  /\ heap' = [a \in DOMAIN heap \cup DOMAIN fresh |->
                          IF a \in DOMAIN heap THEN heap[a] ELSE fresh[a]]
           /\ result' = base + 1
    /\ heapBefore' = heap
    /\ revision' = "copy"
    /\ pc' = "enriched"
    /\ UNCHANGED <<record, item, input>>

\* every entry is kept as it was and its enriched copy is added after it:
\* related: [...item.related, ...enriched]
HeapAfterCopy_Appending(h, arr) ==
    LET items == ItemsAt(h, arr)
        titleMap == titleMapOf(items)
        grown == [i \in 1..Len(items) |->
                     [items[i] EXCEPT !.links = items[i].links \o items[i].links]]
        fresh == Layout(grown, Len(h),
                        [i \in 1..Len(items) |->
                            [j \in 1..Len(grown[i].links) |->
                                IF j <= Len(items[i].links) THEN items[i].links[j].title
                                ELSE resolveTitle(titleMap, grown[i].links[j].objectId)]])
    IN  [a \in DOMAIN h \cup DOMAIN fresh |-> IF a \in DOMAIN h THEN h[a] ELSE fresh[a]]

\* lines 88-103 on the array at arr of heap h: a new array of new items,
\* each with a new related array of new entries, after the cells of h; the
\* cells of h are not written
HeapAfterCopy(h, arr) ==
    LET items == ItemsAt(h, arr)
        titleMap == titleMapOf(items)
        fresh == Layout(items, Len(h),
                        [i \in 1..Len(items) |->
                            [j \in 1..Len(items[i].links) |->
                                resolveTitle(titleMap, items[i].links[j].objectId)]])
    IN  [a \in DOMAIN h \cup DOMAIN fresh |-> IF a \in DOMAIN h THEN h[a] ELSE fresh[a]]

\* rel.title ??= ...: an entry that already has a title keeps it
HeapAfterInPlace_KeepExisting(h, arr) ==
    LET items == ItemsAt(h, arr)
        titleMap == titleMapOf(items)
        entries == {a \in CellsOf(h, arr) : h[a].k = "rel" /\ h[a].title = Undef}
    IN  [a \in DOMAIN h |->
            IF a \in entries
            THEN [h[a] EXCEPT !.title = resolveTitle(titleMap, h[a].objectId)]
            ELSE h[a]]

\* lines 894-909 on the array at arr of heap h: rel.title is assigned on
\* every entry of every item
HeapAfterInPlace(h, arr) ==
    LET items == ItemsAt(h, arr)
        titleMap == titleMapOf(items)
        entries == {a \in CellsOf(h, arr) : h[a].k = "rel"}
    IN  [a \in DOMAIN h |->
            IF a \in entries
            THEN [h[a] EXCEPT !.title = resolveTitle(titleMap, h[a].objectId)]
            ELSE h[a]]

\* the copying revision called on the input
EnrichCopy ==
    /\ pc = "items"
    /\ heap' = HeapAfterCopy(heap, input)
    /\ result' = Len(heap) + 1
    /\ heapBefore' = heap
    /\ revision' = "copy"
    /\ pc' = "enriched"
    /\ UNCHANGED <<record, item, input>>

\* the in-place revision called on the input: the input array is returned
EnrichInPlace ==
    /\ pc = "items"
    /\ heap' = HeapAfterInPlace(heap, input)
    /\ result' = input
    /\ heapBefore' = heap
    /\ revision' = "inplace"
    /\ pc' = "enriched"
    /\ UNCHANGED <<record, item, input>>

NextEnrich == EnrichCopy \/ EnrichInPlace

SpecEnrich == InitEnrich /\ [][NextEnrich]_vars

(***************************************************************************)
(* Claims about the normalizer, checked under Spec.                        *)
(***************************************************************************)
Returned == pc = "done" /\ item.t = "object"

\* transformRecord was called on a record whose fields other than f have
\* documented shapes
CalledOn(f) ==
    pc = "done" /\ \A g \in DOMAIN record \ {f} : record[g] \in DocumentedValues(g)

\* C1: for every raw record of JSON values, documented shape or not,
\* transformRecord returns an Item and never raises.
C1_NeverRaises == pc = "done" => item # Throw

TextFields ==
    {"accessionNumber", "creator", "date", "materials", "dimensions", "description",
     "rights", "creditLine", "condition", "transcription", "status"}

NonEmptyTrimmed(x) == x.t = "string" /\ x.v # "" /\ Trim(x.v) = x.v

\* C2: for every raw record of documented shapes, each optional textual field
\* of the Item is null or a non-empty string without leading or trailing
\* whitespace.
C2_TextFieldsTrimmedOrNull ==
    (pc = "done" /\ Documented(record)) =>
        /\ item.t = "object"
        /\ \A f \in TextFields : item.v[f] = Null \/ NonEmptyTrimmed(item.v[f])

\* C5: Item.title is never absent; a non-empty raw title passes through
\* unchanged, and a null, undefined or empty raw title gives "Unknown Title".
C5_TitleNeverAbsent ==
    Returned =>
        /\ ~IsNullish(item.v.title)
        /\ (record.title.t = "string" /\ record.title.v # "") => item.v.title = record.title
        /\ record.title \in {Null, Undef, Str("")} => item.v.title = Str("Unknown Title")

C5_Witness ==
    /\ Returned
    /\ record.title = Str("")
    /\ item.v.title = Str("Unknown Title")

\* the canonical key the claim names for each raw underscore key
C6_CanonicalKey ==
    [ possible_duplicate |-> "possibleDuplicate",
      prototype |-> "prototype",
      needs_research |-> "needsResearch",
      needs_review |-> "needsReview",
      attribution_uncertain |-> "attributionUncertain",
      materials_incomplete |-> "materialsIncomplete",
      missing_dimensions |-> "missingDimensions" ]

\* C6: flags is null or a non-empty mapping; a canonical key is present, with
\* value true, exactly when its raw underscore key is boolean true; no other
\* key appears.
C6_FlagsExactlyTrueKeys ==
    Returned =>
        LET f == item.v.flags
            present == IF f = Null THEN {} ELSE DOMAIN f.v
        IN  /\ f = Null \/ (f.t = "object" /\ DOMAIN f.v # {})
            /\ \A k \in DOMAIN C6_CanonicalKey :
                  C6_CanonicalKey[k] \in present <=> Get(record.flags, k) = Bool(TRUE)
            /\ \A c \in present :
                  /\ \E k \in DOMAIN C6_CanonicalKey : C6_CanonicalKey[k] = c
                  /\ f.v[c] = Bool(TRUE)

\* a raw flags object with a true flag beside a truthy non-boolean one
C6_Witness ==
    /\ Returned
    /\ Get(record.flags, "needs_review") = Bool(TRUE)
    /\ \E k \in RawFlagKeys : Get(record.flags, k) \in {Num(1), Str("true")}
    /\ item.v.flags = Obj([needsReview |-> Bool(TRUE)])

\* an entry carries a type and an object_id when both are there and not
\* null or empty
C7_Carries(e) == Truthy(e) /\ Truthy(Get(e, "type")) /\ Truthy(Get(e, "object_id"))

RECURSIVE C7_Expected(_)
C7_Expected(raw) ==
    IF raw = <<>> THEN <<>>
    ELSE IF C7_Carries(Head(raw))
         THEN <<Obj([type |-> Head(raw).v.type, objectId |-> Head(raw).v.object_id])>>
                  \o C7_Expected(Tail(raw))
         ELSE C7_Expected(Tail(raw))

\* C7: related is always a sequence, empty for an absent, non-array or empty
\* raw value; it holds, in raw order, one {type, objectId} entry for each raw
\* entry that carries both, and no entry has a title.
C7_RelatedReshaped ==
    Returned =>
        LET r == item.v.related
        IN  /\ r.t = "array"
            /\ r.v = (IF record.related.t = "array" THEN C7_Expected(record.related.v)
                      ELSE <<>>)
            /\ \A i \in 1..Len(r.v) : DOMAIN r.v[i].v = {"type", "objectId"}

\* a raw list whose first entry lacks its object_id and whose second survives
C7_Witness ==
    /\ Returned
    /\ record.related.t = "array"
    /\ Len(record.related.v) = 2
    /\ ~C7_Carries(record.related.v[1])
    /\ Len(item.v.related.v) = 1
    /\ item.v.related.v[1] = Obj([type |-> Str("set-member"), objectId |-> Str("B")])

C8_IsUnknown(s) == ToLowerCase(s) = "unknown"

RECURSIVE C8_Remaining(_)
C8_Remaining(names) ==
    IF names = <<>> THEN <<>>
    ELSE IF C8_IsUnknown(Head(names).v) THEN C8_Remaining(Tail(names))
    ELSE <<Head(names).v>> \o C8_Remaining(Tail(names))

IsStringArray(x) == x.t = "array" /\ \A i \in 1..Len(x.v) : x.v[i].t = "string"

\* C8: a creator given as a sequence of strings loses the entries equal to
\* "unknown" in any letter case; nothing left gives null, otherwise the rest
\* is joined, in order, with " and ".
C8_CreatorSequence ==
    (CalledOn("creator") /\ IsStringArray(record.creator)) =>
        /\ item.t = "object"
        /\ LET rest == C8_Remaining(record.creator.v)
           IN  item.v.creator = (IF rest = <<>> THEN Null
                                 ELSE Str(JoinStrings(rest, " and ")))

C8_Witness ==
    /\ Returned
    /\ record.creator = Arr(<<Str("UNKNOWN"), Str("Ray Eames")>>)
    /\ item.v.creator = Str("Ray Eames")

\* C9: a creator given as one string is null when it trims to empty or to
\* "unknown" in any letter case, and is the trimmed string otherwise; a null
\* or undefined creator gives null.
C9_CreatorString ==
    (CalledOn("creator") /\ (record.creator.t = "string" \/ IsNullish(record.creator))) =>
        /\ item.t = "object"
        /\ item.v.creator =
              (IF IsNullish(record.creator) THEN Null
               ELSE IF Trim(record.creator.v) = "" THEN Null
               ELSE IF ToLowerCase(Trim(record.creator.v)) = "unknown" THEN Null
               ELSE Str(Trim(record.creator.v)))

C9_Witness ==
    /\ Returned
    /\ record.creator = Str(" UNKNOWN ")
    /\ item.v.creator = Null

\* the date the claim documents for each raw shape
C10_Documented(date) ==
    CASE date.t = "object" /\ Get(date, "display").t = "string" /\ Get(date, "display").v # "" ->
            (IF ToLowerCase(Trim(date.v.display.v)) = "unknown" THEN Null
             ELSE date.v.display)
      [] date.t = "number" -> Str(NumberToString(date.v))
      [] date.t = "string" ->
            (IF ToLowerCase(Trim(date.v)) = "unknown" THEN Null ELSE Str(Trim(date.v)))
      [] OTHER -> Null

C10_Amended(date) ==
    CASE date.t = "object" /\ Truthy(Get(date, "display")) ->
            (IF ToLowerCase(Trim(ToStr(date.v.display))) = "unknown" THEN Null
             ELSE Str(Trim(ToStr(date.v.display))))
      [] date.t = "number" -> Str(NumberToString(date.v))
      [] date.t = "string" ->
            (IF Trim(date.v) = "" \/ ToLowerCase(Trim(date.v)) = "unknown" THEN Null
             ELSE Str(Trim(date.v)))
      [] OTHER -> Null

Enriched == pc = "enriched"

\* C3: after enrichRelatedItems, every related entry has its title set: the
\* title of an item of the collection whose id is the entry's objectId when
\* there is one, and the objectId itself when there is none.
C3_EveryTitleResolved ==
    Enriched =>
        LET coll == ItemsAt(heapBefore, input)
            out == ItemsAt(heap, result)
        IN  \A i \in 1..Len(out) : \A j \in 1..Len(out[i].links) :
                LET r == out[i].links[j]
                    targets == {n \in 1..Len(coll) : coll[n].id = r.objectId}
                IN  /\ r.title.t = "string"
                    /\ targets # {} => \E n \in targets : r.title = coll[n].title
                    /\ targets = {} => r.title = r.objectId

\* one entry resolved to another item's title and one left with its id
C3_Witness ==
    /\ Enriched
    /\ LET out == ItemsAt(heap, result)
       IN  /\ Len(out) = 2
           /\ Len(out[1].links) = 2
           /\ out[1].links[1] = [type |-> Str("paired-with"), objectId |-> Str("B"),
                                 title |-> Str("Unknown Title")]
           /\ out[1].links[2] = [type |-> Str("paired-with"), objectId |-> Str("Z"),
                                 title |-> Str("Z")]
           /\ out[2].id = Str("B")

\* C4: enrichRelatedItems does not mutate its input: after the call every
\* input array, item and related entry is as it was, and no input entry has
\* gained a title.
C4_InputNotMutated ==
    Enriched => \A a \in DOMAIN heapBefore : heap[a] = heapBefore[a]

\* the rest of C4: the array returned, its items, their related arrays and
\* the entries are objects that did not exist before the call
C4_ReturnsNewObjects ==
    Enriched => CellsOf(heap, result) \cap DOMAIN heapBefore = {}

(***************************************************************************)
(* Claims about the remaining field rules, checked under Spec.             *)
(***************************************************************************)
\* C11: materials: null, undefined and the empty sequence give null; a
\* non-empty sequence of strings gives its entries joined, in order, with
\* ", "; a string gives its trimmed value, or null when that is empty;
\* "unknown" is kept, as a string and as an entry.
C11_Materials ==
    (Returned /\ (IsNullish(record.materials) \/ record.materials.t = "string"
                     \/ IsStringArray(record.materials))) =>
        item.v.materials =
            (IF IsNullish(record.materials) THEN Null
             ELSE IF record.materials.t = "string" THEN
                 (IF Trim(record.materials.v) = "" THEN Null
                  ELSE Str(Trim(record.materials.v)))
             ELSE IF record.materials.v = <<>> THEN Null
             ELSE Str(JoinStrings([i \in 1..Len(record.materials.v) |->
                                      record.materials.v[i].v], ", ")))

\* a sequence with an "unknown" entry keeps it
C11_Witness ==
    /\ Returned
    /\ record.materials = Arr(<<Str("unknown"), Str("molded plywood")>>)
    /\ item.v.materials = Str("unknown, molded plywood")

\* the synthesis the dimension claims describe: the parts of the present
\* sub-fields in the fixed order, without those holding "?"
C12_Order == <<"h", "w", "d", "l", "diameter", "wingspan">>

C12_Label == [h |-> "H", w |-> "W", d |-> "D", l |-> "L"]

C12_Part(dims, k) ==
    LET unit == IF Truthy(Get(dims, "unit")) THEN Get(dims, "unit") ELSE Str("")
        value == extractValue(Get(dims, k), unit)
    IN  IF k \in DOMAIN C12_Label THEN C12_Label[k] \o " " \o value
        ELSE value \o " " \o k

C12_Synthesized(dims) ==
    LET survives(k) == ~IsNullish(Get(dims, k)) /\ ~Includes(C12_Part(dims, k), "?")
        keys == SelectSeq(C12_Order, survives)
    IN  IF keys = <<>> THEN Null
        ELSE Str(JoinStrings([i \in 1..Len(keys) |-> C12_Part(dims, keys[i])],
                             PartSeparator))

\* the display is a string that, trimmed and lower-cased, is not empty, "?"
\* or "unknown"
C12_UsableDisplay(dims) ==
    LET disp == Get(dims, "display")
    IN  /\ disp.t = "string"
        /\ ToLowerCase(Trim(disp.v)) \notin {"", "?", "unknown"}

\* C12: for a raw dimensions object, a usable display gives exactly the
\* trimmed display, whatever the sub-fields hold; a missing, non-string,
\* empty, "?" or "unknown" display gives the string synthesized from the
\* sub-fields.
C12_DisplayPrecedence ==
    (Returned /\ record.dimensions.t = "object") =>
        item.v.dimensions =
            (IF C12_UsableDisplay(record.dimensions)
             THEN Str(Trim(record.dimensions.v.display.v))
             ELSE C12_Synthesized(record.dimensions))

\* a padded display wins over a sub-field and comes back trimmed
C12_Witness ==
    /\ Returned
    /\ Get(record.dimensions, "display") = Str(" 12 in \t")
    /\ Get(record.dimensions, "h") = Num(26)
    /\ item.v.dimensions = Str("12 in")

\* the parts of the present sub-fields, in the fixed order
C13_Rendered(dims) ==
    LET present(k) == ~IsNullish(Get(dims, k))
        keys == SelectSeq(C12_Order, present)
    IN  [i \in 1..Len(keys) |-> C12_Part(dims, keys[i])]

\* C13: when the string is synthesized and no part holds "?", it is the
\* parts of exactly the present (not null, not undefined) sub-fields, 0
\* included, in the order H, W, D, L, diameter, wingspan, joined with the
\* separator; h, w, d, l put the label first, diameter and wingspan put the
\* word last.
C13_SynthesizedInOrder ==
    LET dims == record.dimensions
        parts == C13_Rendered(dims)
    IN  (/\ Returned
         /\ dims.t = "object"
         /\ ~C12_UsableDisplay(dims)
         /\ Len(parts) > 0
         /\ \A i \in 1..Len(parts) : ~Includes(parts[i], "?")) =>
            item.v.dimensions = Str(JoinStrings(parts, PartSeparator))

\* a height of 0 is rendered, before the width
C13_Witness ==
    /\ Returned
    /\ record.dimensions = Obj([h |-> Num(0),
                                w |-> Obj([value |-> Num(26), unit |-> Str("in")])])
    /\ item.v.dimensions = Str("H 0 x W 26 in")

\* diameter comes after the length, with its word last
C13_WitnessDiameter ==
    /\ Returned
    /\ record.dimensions = Obj([l |-> Num(26), diameter |-> Num(26), unit |-> Str("cm")])
    /\ item.v.dimensions = Str("L 26 cm x 26 cm diameter")

\* C14: a null, undefined, non-object or empty-object raw value gives null;
\* when the string is synthesized, every part holding "?", in its value or
\* in its unit, is left out, and the result is null when no part is left.
C14_PlaceholdersDropped ==
    LET dims == record.dimensions
        noMark(part) == ~Includes(part, "?")
        left == SelectSeq(C13_Rendered(dims), noMark)
    IN  Returned =>
          /\ (dims.t # "object" \/ KeyCount(dims) = 0) => item.v.dimensions = Null
          /\ (dims.t = "object" /\ ~C12_UsableDisplay(dims)) =>
                item.v.dimensions = (IF left = <<>> THEN Null
                                     ELSE Str(JoinStrings(left, PartSeparator)))

\* the "?" height is left out and the width stays
C14_Witness ==
    /\ Returned
    /\ record.dimensions = Obj([h |-> Str("?"), w |-> Str("24 in")])
    /\ item.v.dimensions = Str("W 24 in")

\* a "?" unit takes the only part with it
C14_WitnessUnit ==
    /\ Returned
    /\ record.dimensions = Obj([h |-> Num(26), unit |-> Str("?")])
    /\ item.v.dimensions = Null

C16_Rights ==
    LET raw == record.rights
    IN  Returned =>
          item.v.rights =
            (IF raw.t = "string"
             THEN (IF Trim(raw.v) = "" THEN Null ELSE Str(Trim(raw.v)))
             ELSE IF raw.t = "object" /\ Truthy(Get(raw, "status"))
             THEN Get(raw, "status")
             ELSE Null)

\* the status of a rights object is what comes back, the notes are not
C16_Witness ==
    /\ Returned
    /\ record.rights = Obj([status |-> Str("In copyright"), notes |-> Str(" Public domain ")])
    /\ item.v.rights = Str("In copyright")

\* the sub-fields each of the four small objects names
C17_Named ==
    [ geo |-> {"country", "region"},
      series |-> {"title", "type"},
      location |-> {"site", "shelf"},
      edition |-> {"number", "notes"} ]

\* a sub-field survives when it is truthy; the edition number when it is
\* there at all
C17_Survives(raw, k) ==
    IF k = "number" THEN ~IsNullish(Get(raw, k)) ELSE Truthy(Get(raw, k))

\* C17: geo, series, location and edition keep exactly their named
\* sub-fields that survive, with the raw values, and no other key; the field
\* is null when none survives and when the raw value is null, undefined or
\* not an object, and never an empty object.
C17_SmallObjects ==
    Returned =>
        \A f \in DOMAIN C17_Named :
            LET raw == record[f]
                res == item.v[f]
                left == {k \in C17_Named[f] : C17_Survives(raw, k)}
            IN  IF raw.t # "object" \/ left = {}
                THEN res = Null
                ELSE /\ res.t = "object"
                     /\ DOMAIN res.v = left
                     /\ \A k \in left : res.v[k] = raw.v[k]

\* the country stays, the key the rule does not name goes
C17_Witness ==
    /\ Returned
    /\ record.geo = Obj([country |-> Str("USA"), city |-> Str("CA")])
    /\ item.v.geo = Obj([country |-> Str("USA")])

\* an edition number of 0 stays, empty notes go
C17_WitnessEdition ==
    /\ Returned
    /\ record.edition = Obj([number |-> Num(0), notes |-> Str("")])
    /\ item.v.edition = Obj([number |-> Num(0)])

\* C18: notes, keywords, variants, tags and provenance are null when the raw
\* value is not a non-empty array (null, undefined, the empty array, a
\* string, an object, a number), and otherwise the raw sequence itself, its
\* elements and their order untouched; never the empty sequence.
C18_ListFields ==
    Returned =>
        \A f \in ListFields :
            /\ item.v[f] # Arr(<<>>)
            /\ item.v[f] = (IF record[f].t = "array" /\ Len(record[f].v) > 0
                            THEN record[f] ELSE Null)

\* the elements pass through in their order, a null and an empty one included
C18_Witness ==
    /\ Returned
    /\ record.keywords = Arr(<<Null, Str("")>>)
    /\ item.v.keywords = Arr(<<Null, Str("")>>)
    /\ item.v.tags = Null

\* the canonical name of each plain optional string field
C19_Canonical ==
    [ accession_number |-> "accessionNumber",
      description |-> "description",
      condition |-> "condition",
      credit_line |-> "creditLine",
      transcription |-> "transcription",
      status |-> "status" ]

\* C19: on a record of documented shapes, each plain optional string field
\* is null when the raw value is null, undefined or trims to the empty
\* string, and the trimmed raw string otherwise.
C19_PlainStrings ==
    (pc = "done" /\ Documented(record)) =>
        /\ item.t = "object"
        /\ \A f \in DOMAIN C19_Canonical :
              item.v[C19_Canonical[f]] =
                  (IF IsNullish(record[f]) THEN Null
                   ELSE IF Trim(record[f].v) = "" THEN Null
                   ELSE Str(Trim(record[f].v)))

\* a padded credit line comes back trimmed, a null transcription stays null
C19_Witness ==
    /\ Returned
    /\ record.credit_line = Str("  Good \t")
    /\ record.transcription = Null
    /\ item.v.creditLine = Str("Good")
    /\ item.v.transcription = Null

(***************************************************************************)
(* The absence round trip: the fields that came out null are handed back   *)
(* to transformRecord as null raw values.                                  *)
(***************************************************************************)
\* raw field -> canonical field, for the rules that can give null
\* (lines 39-67)
AbsenceFields ==
    [ accession_number |-> "accessionNumber", creator |-> "creator", date |-> "date",
      materials |-> "materials", dimensions |-> "dimensions", flags |-> "flags",
      notes |-> "notes", external_ids |-> "externalIds", keywords |-> "keywords",
      description |-> "description", rights |-> "rights", variants |-> "variants",
      tags |-> "tags", credit_line |-> "creditLine", condition |-> "condition",
      geo |-> "geo", transcription |-> "transcription", series |-> "series",
      location |-> "location", edition |-> "edition", status |-> "status",
      provenance |-> "provenance" ]

\* r with null in every raw field whose canonical value in it is null
FedBack(r, it) ==
    [f \in DOMAIN r |->
        IF f \in DOMAIN AbsenceFields /\ it.v[AbsenceFields[f]] = Null THEN Null
        ELSE r[f]]

\* transformRecord is called on the record fed back; record stays the
\* original raw record
FeedBack ==
    /\ pc = "done"
    /\ item.t = "object"
    /\ item' = transformRecord(FedBack(record, item))
    /\ pc' = "fedback"
    /\ UNCHANGED <<record, heap, input, result, heapBefore, revision>>

NextFeedBack == TransformRecord \/ FeedBack

SpecFeedBack == Init /\ [][NextFeedBack]_vars

\* C20: for creator, date, materials, dimensions, flags, externalIds,
\* rights, geo, series, location, edition, the plain string fields and the
\* list fields: when the field came out null and null is fed back as its
\* raw value, the call returns and the field is null again.
C20_AbsenceIdempotent ==
    pc = "fedback" =>
        /\ item.t = "object"
        /\ \A f \in DOMAIN AbsenceFields :
              ItemOf(record)[AbsenceFields[f]] = Null => item.v[AbsenceFields[f]] = Null

\* an "Unknown" creator came out null, and null fed back gives null
C20_Witness ==
    /\ pc = "fedback"
    /\ record.creator = Str("Unknown")
    /\ FedBack(record, Obj(ItemOf(record))).creator = Null
    /\ item.t = "object"
    /\ item.v.creator = Null

(***************************************************************************)
(* The default unit of the dimensions, checked under Spec.                 *)
(***************************************************************************)
\* a number, a string, or a {value, unit} pair with a numeric value
C21_Rendered(val) ==
    \/ val.t \in {"number", "string"}
    \/ val.t = "object" /\ Get(val, "value").t = "number"

\* a string with no unit text after its number
C21_Bare(s) == ~Includes(s, " ")

\* the sub-value as the claim words it: the default unit goes to a bare
\* number, to a pair without its own unit, and to a bare string
C21_Stated(val, unit) ==
    CASE val.t = "number" -> NumberToString(val.v) \o " " \o unit
      [] val.t = "string" -> (IF C21_Bare(val.v) THEN val.v \o " " \o unit ELSE val.v)
      [] OTHER ->
            NumberToString(val.v.value.v) \o " " \o
                (IF Truthy(Get(val, "unit")) THEN val.v.unit.v ELSE unit)

\* the sub-value as extractValue renders it: a string is itself
C21_Actual(val, unit) ==
    IF val.t = "string" THEN val.v ELSE C21_Stated(val, unit)

\* the dimensions are synthesized with a default unit, from sub-values of
\* the three rendered shapes, and nothing holds "?"
C21_Case ==
    LET dims == record.dimensions
    IN  /\ Returned
        /\ dims.t = "object"
        /\ ~C12_UsableDisplay(dims)
        /\ Get(dims, "unit").t = "string"
        /\ Get(dims, "unit").v # ""
        /\ \E k \in DimensionKeys : ~IsNullish(Get(dims, k))
        /\ \A k \in DimensionKeys :
              ~IsNullish(Get(dims, k)) => C21_Rendered(Get(dims, k))
        /\ \A i \in 1..Len(C13_Rendered(dims)) : ~Includes(C13_Rendered(dims)[i], "?")

\* the string joined from the present sub-fields, each value rendered by
\* the rule named: "stated" or "actual"
C21_Expected(rule) ==
    LET dims == record.dimensions
        unit == dims.v.unit.v
        present(k) == ~IsNullish(Get(dims, k))
        keys == SelectSeq(C12_Order, present)
        value(k) == IF rule = "stated" THEN C21_Stated(dims.v[k], unit)
                    ELSE C21_Actual(dims.v[k], unit)
        part(k) == IF k \in DOMAIN C12_Label THEN C12_Label[k] \o " " \o value(k)
                   ELSE value(k) \o " " \o k
    IN  Str(JoinStrings([i \in 1..Len(keys) |-> part(keys[i])], PartSeparator))

\* C21 as stated: the default unit is applied to a bare number, to a pair
\* whose own unit is absent and to a bare string; a pair's own unit wins.
C21_DefaultUnitAsStated == C21_Case => item.v.dimensions = C21_Expected("stated")

\* C21, amended: the default unit is applied to a bare number and to a pair
\* whose own unit is absent; a pair's own unit wins; a string, bare or not,
\* is rendered as it is, without the default unit.
C21_DefaultUnit == C21_Case => item.v.dimensions = C21_Expected("actual")

\* the bare string stays bare, the pair keeps its own unit
C21_Witness ==
    /\ Returned
    /\ record.dimensions = Obj([h |-> Str("10"),
                                w |-> Obj([value |-> Num(26), unit |-> Str("in")]),
                                unit |-> Str("cm")])
    /\ item.v.dimensions = Str("H 10 x W 26 in")

\* the number and the pair without a unit take the default unit
C21_WitnessApplied ==
    /\ Returned
    /\ record.dimensions = Obj([h |-> Num(26), w |-> Obj([value |-> Num(21)]),
                                unit |-> Str("cm")])
    /\ item.v.dimensions = Str("H 26 cm x W 21 cm")

(***************************************************************************)
(* Shapes outside the documented space, checked under Spec.                *)
(***************************************************************************)
\* per raw field, the kinds of value the claim names as un-enumerated
C22_Shapes ==
    [ creator |-> {"number", "boolean", "object"},
      date |-> {"boolean", "array"},
      materials |-> {"number", "object"},
      dimensions |-> {"array", "string"},
      flags |-> {"array", "string"},
      geo |-> {"array", "string"},
      series |-> {"array", "string"},
      location |-> {"array", "string"},
      edition |-> {"array", "string"},
      external_ids |-> {"array", "string"},
      rights |-> {"number", "array"},
      related |-> {"object", "string"} ]

C22_Canonical(f) == IF f = "related" THEN "related" ELSE AbsenceFields[f]

\* C22: a raw value of an un-enumerated shape gives null for its field, and
\* the empty sequence for related, never a populated value and never a
\* fault.
C22_UnexpectedShapesAbsent ==
    pc = "done" =>
        \A f \in DOMAIN C22_Shapes :
            record[f].t \in C22_Shapes[f] =>
                /\ item.t = "object"
                /\ item.v[C22_Canonical(f)] = (IF f = "related" THEN Arr(<<>>) ELSE Null)

\* the same without a non-empty array of external ids: what is left of the
\* claim
C22_ApartFromIdArrays ==
    pc = "done" =>
        \A f \in DOMAIN C22_Shapes :
            (/\ record[f].t \in C22_Shapes[f]
             /\ ~(f = "external_ids" /\ record[f].t = "array" /\ Len(record[f].v) > 0)) =>
                /\ item.t = "object"
                /\ item.v[C22_Canonical(f)] = (IF f = "related" THEN Arr(<<>>) ELSE Null)

(***************************************************************************)
(* Further claims about the enricher, checked under SpecEnrich.            *)
(***************************************************************************)
\* the orders a collection of n items can be put in
C23_Orders(n) == {p \in [1..n -> 1..n] : \A i, j \in 1..n : p[i] = p[j] => i = j}

C23_DistinctIds(coll) ==
    \A i, j \in 1..Len(coll) : coll[i].id = coll[j].id => i = j

\* C23: with distinct ids, an entry that targets an item of the collection,
\* later, earlier or its own, has that item's title, and every order of the
\* collection resolves every entry to the same title.
C23_OrderIndependent ==
    LET coll == ItemsAt(heapBefore, input)
        out == ItemsAt(heap, result)
    IN  (Enriched /\ C23_DistinctIds(coll)) =>
            \A i \in 1..Len(out) : \A j \in 1..Len(out[i].links) :
                LET r == out[i].links[j]
                IN  /\ \A n \in 1..Len(coll) :
                          coll[n].id = r.objectId => r.title = coll[n].title
                    /\ \A p \in C23_Orders(Len(coll)) :
                          r.title = resolveTitle(
                                        titleMapOf([m \in 1..Len(coll) |-> coll[p[m]]]),
                                        r.objectId)

\* the first item points at the second and the second at the first
C23_Witness ==
    /\ Enriched
    /\ LET out == ItemsAt(heap, result)
       IN  /\ Len(out) = 2
           /\ out[1].id = Str("A")
           /\ out[2].id = Str("B")
           /\ Len(out[1].links) = 1
           /\ Len(out[2].links) = 1
           /\ out[1].links[1].objectId = Str("B")
           /\ out[1].links[1].title = out[2].title
           /\ out[2].links[1].objectId = Str("A")
           /\ out[2].links[1].title = out[1].title

(***************************************************************************)
(* The pipeline: transformRecords (lines 77-79) on a batch of raw records, *)
(* then enrichRelatedItems on the items it returned.  The raw records live *)
(* in the heap too:                                                        *)
(*   record cell [k |-> "record", object_id, title, related |-> address,   *)
(*                notes |-> address]            (0 for a missing field)    *)
(*   entry cell  [k |-> "entry", type, object_id]                          *)
(*   list cell   [k |-> "list", elems |-> <<value, ...>>]                  *)
(* The raw array is at address 1; record i has a block of RawStride cells  *)
(* after it, and a cell of a block that holds nothing is free.             *)
(***************************************************************************)
RawRoot == 1

Free == [k |-> "free"]

RawEntry(type, object_id) == Obj([type |-> Str(type), object_id |-> object_id])

\* the raw records a batch is made of: their id, title, related and notes
RawShapes ==
    { [object_id |-> Str("A"), title |-> Str("Chair"),
       related |-> Arr(<<RawEntry("paired-with", Str("B"))>>),
       notes |-> Arr(<<Str("a")>>)],
      [object_id |-> Str("B"), title |-> Null,
       related |-> Arr(<<RawEntry("set-member", Str("A")),
                         RawEntry("paired-with", Undef)>>),
       notes |-> Arr(<<>>)],
      [object_id |-> Str("B"), title |-> Str("Table"),
       related |-> Undef, notes |-> Undef],
      [object_id |-> Str("A"), title |-> Str("Lamp"),
       related |-> Arr(<<RawEntry("paired-with", Str("Z"))>>),
       notes |-> Arr(<<Str("b"), Str("a")>>)],
      [object_id |-> Str("A"), title |-> Str(""),
       related |-> Arr(<<RawEntry("paired-with", Str("A")),
                         RawEntry("set-member", Str("B"))>>),
       notes |-> Undef],
      [object_id |-> Str("B"), title |-> Str("Stool"),
       related |-> Arr(<<>>), notes |-> Arr(<<Str("a")>>)] }

Batches == SeqsUpTo(RawShapes, MaxItems)

\* record cell, related array, MaxRelated entries, notes list
RawStride == 3 + MaxRelated

RawBlock(i) == RawRoot + (i - 1) * RawStride

\* the heap holding the batch b
RawLayout(b) ==
    [a \in 1..(RawRoot + Len(b) * RawStride) |->
        IF a = RawRoot
        THEN [k |-> "array", elems |-> [i \in 1..Len(b) |-> RawBlock(i) + 1]]
        ELSE LET i == ((a - RawRoot - 1) \div RawStride) + 1
                 o == a - RawBlock(i)
                 r == b[i]
                 n == IF r.related.t = "array" THEN Len(r.related.v) ELSE 0
             IN  IF o = 1 THEN
                     [k |-> "record", object_id |-> r.object_id, title |-> r.title,
                      related |-> IF r.related.t = "array" THEN a + 1 ELSE 0,
                      notes |-> IF r.notes.t = "array" THEN a + 2 + MaxRelated ELSE 0]
                 ELSE IF o = 2 THEN
                     (IF r.related.t = "array"
                      THEN [k |-> "array", elems |-> [j \in 1..n |-> a + j]]
                      ELSE Free)
                 ELSE IF o <= 2 + MaxRelated THEN
                     (IF o - 2 <= n
                      THEN [k |-> "entry", type |-> r.related.v[o - 2].v.type,
                            object_id |-> r.related.v[o - 2].v.object_id]
                      ELSE Free)
                 ELSE (IF r.notes.t = "array"
                       THEN [k |-> "list", elems |-> r.notes.v]
                       ELSE Free)]

\* the raw record held by the record cell at address a of heap h, as a
\* value: the fields the cell does not hold are those of MinimalRecord
RawAt(h, a) ==
    LET rc == h[a]
    IN  [MinimalRecord EXCEPT
            !.object_id = rc.object_id,
            !.title = rc.title,
            !.related =
                IF rc.related = 0 THEN Undef
                ELSE Arr([j \in 1..Len(h[rc.related].elems) |->
                            LET e == h[h[rc.related].elems[j]]
                            IN  Obj([type |-> e.type, object_id |-> e.object_id])]),
            !.notes = IF rc.notes = 0 THEN Undef ELSE Arr(h[rc.notes].elems)]

\* the batch held by the raw array of heap h
RawBatch(h) == [i \in 1..Len(h[RawRoot].elems) |-> RawAt(h, h[RawRoot].elems[i])]

\* a record whose object_id was met earlier in the batch gives no item
transformRecords_Deduplicated(records) ==
    LET first(i) == \A j \in 1..(i - 1) : records[j].object_id # records[i].object_id
        kept == {i \in 1..Len(records) : first(i)}
        rank(i) == Cardinality({j \in kept : j <= i})
    IN  Arr([m \in 1..Cardinality(kept) |->
                transformRecord(records[CHOOSE i \in kept : rank(i) = m])])

\* records.map(transformRecord), lines 77-79: a rule that raises ends the
\* call
transformRecords(records) ==
    LET out == [i \in 1..Len(records) |-> transformRecord(records[i])]
    IN  IF \E i \in 1..Len(out) : out[i] = Throw THEN Throw ELSE Arr(out)

\* item cell, related array, MaxRelated entries
ItemStride == 2 + MaxRelated

InitPipeline ==
    /\ record = MinimalRecord
    /\ item = NotRun
    /\ pc = "records"
    /\ \E b \in Batches : heap = RawLayout(b)
    /\ input = 0
    /\ result = 0
    /\ heapBefore = <<>>
    /\ revision = "none"

\* The cells transformRecords allocates for the array out it returns, after
\* the cells of heap h: a new array of new items.  Each item has a new related array of new
\* {type, objectId} entries (lines 312-317); its notes are the raw notes
\* array itself when normalizeArray returns its argument (line 472).
ItemCells(h, out) ==
    LET base == Len(h)
        block(i) == base + 1 + (i - 1) * ItemStride
    IN  [a \in (base + 1)..(base + 1 + Len(out.v) * ItemStride) |->
            IF a = base + 1
            THEN [k |-> "array", elems |-> [i \in 1..Len(out.v) |-> block(i) + 1]]
            ELSE LET i == ((a - base - 2) \div ItemStride) + 1
                     o == a - block(i)
                     it == out.v[i].v
                 IN  IF o = 1 THEN
                         [k |-> "item", id |-> it.id, title |-> it.title,
                          objectType |-> it.objectType, related |-> a + 1,
                          notes |-> IF it.notes = Null THEN 0
                                    ELSE h[h[RawRoot].elems[i]].notes]
                     ELSE IF o = 2 THEN
                         [k |-> "array", elems |-> [j \in 1..Len(it.related.v) |-> a + j]]
                     ELSE IF o - 2 <= Len(it.related.v) THEN
                         [k |-> "rel", type |-> it.related.v[o - 2].v.type,
                          objectId |-> it.related.v[o - 2].v.objectId,
                          title |-> Undef]
                     ELSE Free]

\* the title fallback assigned to the raw record as well:
\* record.title = record.title || 'Unknown Title'
HeapAfterTransform_TitleWrittenBack(h, out) ==
    [a \in DOMAIN h \cup DOMAIN ItemCells(h, out) |->
        IF a \in DOMAIN h
        THEN (IF h[a].k = "record" THEN [h[a] EXCEPT !.title = titleOf(h[a].title)]
              ELSE h[a])
        ELSE ItemCells(h, out)[a]]

\* the heap when transformRecords returns out: no cell of h is written
HeapAfterTransform(h, out) ==
    [a \in DOMAIN h \cup DOMAIN ItemCells(h, out) |->
        IF a \in DOMAIN h THEN h[a] ELSE ItemCells(h, out)[a]]

\* transformRecords on the raw array; the records of a batch have documented
\* shapes, on which no rule raises
TransformRecords ==
    /\ pc = "records"
    /\ \E out \in {transformRecords(RawBatch(heap))} :
          /\ out.t = "array"
          /\ heap' = HeapAfterTransform(heap, out)
    /\ input' = Len(heap) + 1
    /\ pc' = "items"
    /\ UNCHANGED <<record, item, result, heapBefore, revision>>

NextPipeline == TransformRecords \/ EnrichCopy \/ EnrichInPlace

SpecPipeline == InitPipeline /\ [][NextPipeline]_vars

\* transformRecords has returned
Transformed == pc = "items"

\* the item at position i of the array at arr, as the canonical fields the
\* heap holds: its lists read through their addresses
C24_ItemAt(h, arr, i) ==
    LET it == ItemsAt(h, arr)[i]
    IN  [id |-> it.id, title |-> it.title, objectType |-> it.objectType,
         related |-> it.links,
         notes |-> IF it.notes = 0 THEN Null ELSE Arr(h[it.notes].elems)]

\* the same fields of a canonical record given as a value
C24_Fields(canonical) ==
    [id |-> canonical.v.id, title |-> canonical.v.title,
     objectType |-> canonical.v.objectType,
     related |-> [j \in 1..Len(canonical.v.related.v) |->
                     [type |-> canonical.v.related.v[j].v.type,
                      objectId |-> canonical.v.related.v[j].v.objectId,
                      title |-> Undef]],
     notes |-> canonical.v.notes]

\* C24: transformRecords returns as many items as there are raw records;
\* the item at position i is transformRecord of the raw record at position
\* i, and is what that record gives when it is transformed alone.
C24_ElementWise ==
    Transformed =>
        LET raws == RawBatch(heap)
            n == Len(heap[input].elems)
        IN  /\ n = Len(raws)
            /\ \A i \in 1..n :
                  /\ i <= Len(raws)
                  /\ C24_ItemAt(heap, input, i) = C24_Fields(transformRecord(raws[i]))
                  /\ C24_ItemAt(heap, input, i) =
                        C24_Fields(transformRecords(<<raws[i]>>).v[1])

\* two raw records with the same id give two items, each its own
C24_Witness ==
    /\ Transformed
    /\ Len(heap[input].elems) = 2
    /\ RawBatch(heap)[1].object_id = RawBatch(heap)[2].object_id
    /\ C24_ItemAt(heap, input, 1).title = Str("Chair")
    /\ C24_ItemAt(heap, input, 2).title = Str("Unknown Title")

\* the addresses of the raw array, the raw records, their related arrays
\* and entries and their notes
RawCells(h) == 1..(RawRoot + Len(h[RawRoot].elems) * RawStride)

\* C25: no step of the pipeline, transformRecords or enrichRelatedItems in
\* either revision, changes a cell of the raw records: the records, their
\* related arrays and entries, and the notes arrays the items share with
\* them.
C25_RawUntouched ==
    [][\A a \in RawCells(heap) : heap'[a] = heap[a]]_vars

\* the in-place revision has run on an item that shares its notes with its
\* raw record and has an entry, now titled
C25_Witness ==
    /\ pc = "enriched"
    /\ revision = "inplace"
    /\ \E i \in 1..Len(heap[result].elems) :
          LET it == ItemsAt(heap, result)[i]
          IN  /\ it.notes \in RawCells(heap)
              /\ heap[it.notes].k = "list"
              /\ Len(it.links) > 0
              /\ it.links[1].title.t = "string"

\* C26: enrichRelatedItems returns the same number of items in the same
\* order; each item has its id, title, objectType and notes as before, and
\* its related list has the same length and, entry by entry, the same type
\* and objectId.  Only the title of an entry may differ.
C26_OnlyTitlesChange ==
    Enriched =>
        LET before == ItemsAt(heapBefore, input)
            after == ItemsAt(heap, result)
        IN  /\ Len(after) = Len(before)
            /\ \A i \in 1..Len(after) :
                  /\ i <= Len(before)
                  /\ after[i].id = before[i].id
                  /\ after[i].title = before[i].title
                  /\ after[i].objectType = before[i].objectType
                  /\ after[i].notes = before[i].notes
                  /\ Len(after[i].links) = Len(before[i].links)
                  /\ \A j \in 1..Len(after[i].links) :
                        /\ j <= Len(before[i].links)
                        /\ after[i].links[j].type = before[i].links[j].type
                        /\ after[i].links[j].objectId = before[i].links[j].objectId

\* the copying revision keeps an entry it cannot resolve, after one it can
C26_Witness ==
    /\ Enriched
    /\ revision = "copy"
    /\ LET after == ItemsAt(heap, result)
       IN  /\ Len(after) = 1
           /\ Len(after[1].links) = 2
           /\ after[1].links[1].objectId = Str("A")
           /\ after[1].links[1].title = after[1].title
           /\ after[1].links[2].objectId = Str("Z")
           /\ after[1].links[2].title = Str("Z")

(***************************************************************************)
(* enrichRelatedItems called on its own result.                            *)
(***************************************************************************)
\* the copying revision called on what the first call returned
EnrichCopyAgain ==
    /\ pc = "enriched"
    /\ heap' = HeapAfterCopy(heap, result)
    /\ input' = result
    /\ result' = Len(heap) + 1
    /\ heapBefore' = heap
    /\ pc' = "again"
    /\ UNCHANGED <<record, item, revision>>

\* the in-place revision called on what the first call returned
EnrichInPlaceAgain ==
    /\ pc = "enriched"
    /\ heap' = HeapAfterInPlace(heap, result)
    /\ input' = result
    /\ result' = result
    /\ heapBefore' = heap
    /\ pc' = "again"
    /\ UNCHANGED <<record, item, revision>>

NextEnrichTwice == EnrichCopy \/ EnrichInPlace \/ EnrichCopyAgain \/ EnrichInPlaceAgain

SpecEnrichTwice == InitEnrich /\ [][NextEnrichTwice]_vars

\* C27: enrichRelatedItems called on its own result returns a collection
\* equal to that result, item by item and entry by entry, whatever titles
\* the entries of the first input carried.
C27_Idempotent ==
    pc = "again" => ItemsAt(heap, result) = ItemsAt(heapBefore, input)

\* an entry that came in with a stale title (the first input is still at
\* address 1 after the copying revision) has its target's title after the
\* second call
C27_Witness ==
    /\ pc = "again"
    /\ revision = "copy"
    /\ LET first == ItemsAt(heap, 1)
           twice == ItemsAt(heap, result)
       IN  /\ Len(twice) = 2
           /\ twice[1].id = Str("A")
           /\ twice[2].id = Str("B")
           /\ Len(twice[2].links) = 1
           /\ first[2].links[1].title = Str("Old title")
           /\ twice[2].links[1].objectId = Str("A")
           /\ twice[2].links[1].title = twice[1].title

(***************************************************************************)
(* The index with repeated ids, and the two revisions compared, checked    *)
(* under SpecEnrich.                                                       *)
(***************************************************************************)
\* C28: when several items have the id an entry targets, the entry has the
\* title of the last of them in the order of the collection.
C28_LastDuplicateWins ==
    Enriched =>
        LET coll == ItemsAt(heapBefore, input)
            out == ItemsAt(heap, result)
        IN  \A i \in 1..Len(out) : \A j \in 1..Len(out[i].links) :
                \A n \in 1..Len(coll) :
                    (/\ coll[n].id = out[i].links[j].objectId
                     /\ \A m \in (n + 1)..Len(coll) : coll[m].id # coll[n].id) =>
                        out[i].links[j].title = coll[n].title

\* two items share the id A, and an entry targeting A has the second title
C28_Witness ==
    /\ Enriched
    /\ LET out == ItemsAt(heap, result)
       IN  /\ Len(out) = 2
           /\ out[1].id = Str("A")
           /\ out[2].id = Str("A")
           /\ out[1].title # out[2].title
           /\ Len(out[1].links) = 1
           /\ out[1].links[1].objectId = Str("A")
           /\ out[1].links[1].title = out[2].title

\* C29: on the same collection the copying revision and the in-place
\* revision return equal arrays, item by item and entry by entry; the array
\* a call returned is compared with what each revision returns for the
\* input as it was before the call.
C29_RevisionsAgree ==
    Enriched =>
        /\ ItemsAt(heap, result) =
               ItemsAt(HeapAfterCopy(heapBefore, input), Len(heapBefore) + 1)
        /\ ItemsAt(heap, result) =
               ItemsAt(HeapAfterInPlace(heapBefore, input), input)

\* the in-place revision has replaced a title an entry already carried, and
\* the copying revision gives that entry the same title in its new array
C29_Witness ==
    /\ Enriched
    /\ revision = "inplace"
    /\ LET before == ItemsAt(heapBefore, input)
           out == ItemsAt(heap, result)
           copied == ItemsAt(HeapAfterCopy(heapBefore, input), Len(heapBefore) + 1)
       IN  /\ Len(out) = 2
           /\ Len(out[2].links) = 1
           /\ before[2].links[1].title = Str("Old title")
           /\ out[2].links[1].title # Str("Old title")
           /\ copied[2].links[1].title = out[2].links[1].title

(***************************************************************************)
(* The rules applied to their own results: the canonical creator, date and *)
(* materials are handed back to transformRecord as raw values.             *)
(***************************************************************************)
\* the canonical fields that are handed back, by raw field (lines 41-43)
RenormalizedFields == [creator |-> "creator", date |-> "date", materials |-> "materials"]

\* r with the canonical creator, date and materials of it as raw values
Renormalizable(r, it) ==
    [f \in DOMAIN r |->
        IF f \in DOMAIN RenormalizedFields THEN it.v[RenormalizedFields[f]] ELSE r[f]]

\* transformRecord is called on the record made of its own results; record
\* stays the original raw record
Renormalize ==
    /\ pc = "done"
    /\ item.t = "object"
    /\ item' = transformRecord(Renormalizable(record, item))
    /\ pc' = "renormalized"
    /\ UNCHANGED <<record, heap, input, result, heapBefore, revision>>

NextRenormalize == TransformRecord \/ Renormalize

SpecRenormalize == Init /\ [][NextRenormalize]_vars

\* C30: for every raw record of documented shapes, the canonical creator,
\* date and materials fed back as raw values give the same canonical
\* creator, date and materials.
C30_FixedPoints ==
    (pc = "renormalized" /\ Documented(record)) =>
        /\ item.t = "object"
        /\ \A f \in DOMAIN RenormalizedFields :
              item.v[RenormalizedFields[f]] = ItemOf(record)[RenormalizedFields[f]]

\* the same for the records whose first results are null or non-empty
\* strings without surrounding whitespace
C30_FixedPointsOfTrimmed ==
    (/\ pc = "renormalized"
     /\ Documented(record)
     /\ \A f \in DOMAIN RenormalizedFields :
           LET x == ItemOf(record)[RenormalizedFields[f]]
           IN  x = Null \/ NonEmptyTrimmed(x)) =>
        /\ item.t = "object"
        /\ \A f \in DOMAIN RenormalizedFields :
              item.v[RenormalizedFields[f]] = ItemOf(record)[RenormalizedFields[f]]

\* a joined creator fed back as a string comes out unchanged
C30_TrimmedCase ==
    /\ pc = "renormalized"
    /\ record.creator = Arr(<<Str("Charles Eames"), Str("Ray Eames")>>)
    /\ ItemOf(record).creator = Str("Charles Eames and Ray Eames")
    /\ item.v.creator = Str("Charles Eames and Ray Eames")

\* the creator [""] gives "", and "" fed back gives null
C30_EmptyCase ==
    /\ pc = "renormalized"
    /\ Documented(record)
    /\ record.creator = Arr(<<Str("")>>)
    /\ ItemOf(record).creator = Str("")
    /\ item.t = "object"
    /\ item.v.creator = Null

====
